---- MODULE Spec2Model ----
\* A model of the BitVec<B> of src/src/lib.rs: a bit-packed boolean sequence
\* over a manually allocated buffer of blocks of type B.
\*
\* Memory is modelled as the blocks at store + 0, store + 1, ...: `alloc` of
\* them belong to the allocation the allocator handed out, the others lie
\* outside it.  An access outside the allocation is undefined behaviour: the
\* model takes every outcome (the access faults, or it reaches memory whose
\* content is arbitrary).
EXTENDS Integers, Sequences, FiniteSets, TLC

\* ------------------------------------------------------------------ bounds

\* Bit width of the block type B (the crate offers 8 .. 128; the model uses
\* a narrow block, so that every bit pattern of the buffer is explored).
Bits == 2

\* Largest number of blocks a resize may ask for in the model.
MaxStores == 4
\* How many times next() is called on an iterator that has returned None.
MaxNones == 2

\* ------------------------------------------------------- program constants

\* BitStore::bits / zero / one.
bits == Bits
zero == 0
one == 1

\* num_stores as set by new().
InitialStores == 2

\* Layout::new::<B>() is the layout of ONE value of type B: the number of
\* blocks it describes.
LayoutBlocks == 1

\* Blocks actually requested by new(): alloc_zeroed(Layout::new::<B>()).
InitialAlloc == LayoutBlocks

\* ---------------------------------------------------------------- helpers

Min(a, b) == IF a < b THEN a ELSE b

RECURSIVE Pow2(_)
Pow2(n) == IF n = 0 THEN 1 ELSE 2 * Pow2(n - 1)

\* The values of type B.
BlockValues == 0 .. (Pow2(bits) - 1)

\* Block offsets from the store pointer that the model keeps track of.
Mem == 0 .. (MaxStores - 1)

\* Bit indices a caller may pass in the model (one past the largest capacity).
Indexes == 0 .. (MaxStores * bits)

\* Option<bool>, written as the value prints.
None == "None"
Some(b) == IF b THEN "Some(true)" ELSE "Some(false)"

\* ---------------------------------------------------- operators of type B

\* x << n on a B (wrapping at the width of B; callers pass n < bits).
Shl(x, n) == (x * Pow2(n)) % Pow2(bits)

\* !x on a B.
BitNot(x) == (Pow2(bits) - 1) - x

RECURSIVE AndBits(_, _, _)
AndBits(x, y, n) ==
    IF n = 0 THEN 0
    ELSE (IF x % 2 = 1 /\ y % 2 = 1 THEN 1 ELSE 0)
         + 2 * AndBits(x \div 2, y \div 2, n - 1)

\* x & y on a B.
BitAnd(x, y) == AndBits(x, y, bits)

RECURSIVE OrBits(_, _, _)
OrBits(x, y, n) ==
    IF n = 0 THEN 0
    ELSE (IF x % 2 = 1 \/ y % 2 = 1 THEN 1 ELSE 0)
         + 2 * OrBits(x \div 2, y \div 2, n - 1)

\* x | y on a B.
BitOr(x, y) == OrBits(x, y, bits)

\* ------------------------------------------------------------------ state

VARIABLES
    store,       \* store[k]: the block at store + k (0 where no call can
                 \* address it: beyond the allocation and the capacity)
    alloc,       \* number of blocks in the allocation behind `store`
    num_stores,  \* BitVec::num_stores
    len,         \* BitVec::len
    status,      \* "live", "panicked" (a panic!/expect fired), "faulted" or
                 \* "dropped" (drop has run)
    store_is_null, \* the pointer BitVec::store is null
    uninit,      \* while history # "mixed": the indexes below len whose bit
                 \* lies in a block that realloc handed out uninitialised and
                 \* that no call has written since
    buffer,      \* the heap buffer of the BitVec: "owned" while allocated,
                 \* then what drop did with it
    iter,        \* the iterator (Bits or Stores) that borrows the BitVec, with
                 \* what its next() has returned so far, or NoIter
    text,        \* what the fmt that has just returned wrote to its Formatter
    last,        \* the call that has just returned and its result, or Idle
    pushed,      \* the push that returned last, until the next call is made
    history,     \* "fresh", "plain" (only push/pop/set so far) or "mixed"
    abs          \* the plain list run side by side while history # "mixed"

vars == << store, alloc, num_stores, len, status, store_is_null, uninit,
          buffer, iter, text, last, pushed, history, abs >>

\* The BitVec as a value (the fields an operation reads and writes).
Self == [store |-> store, alloc |-> alloc, num_stores |-> num_stores,
         len |-> len, status |-> status, is_null |-> store_is_null,
         uninit |-> uninit]

\* ------------------------------------------------------------- addressing

capacity(s) == s.num_stores * bits

is_empty(s) == s.len = 0

\* The block offset that lookup_store_mut adds to the store pointer.
lookup_store_mut(index) == index \div bits

index_mask(index) == Shl(one, index % bits)

\* The pointer lookup_store_mut returns points outside the allocation.
OutOfAlloc(s, index) == lookup_store_mut(index) >= s.alloc

\* ------------------------------------------------------------------ reads

get_unchecked(s, index) ==
    BitAnd(s.store[lookup_store_mut(index)], index_mask(index)) > zero

\* A get that checks the index against the capacity instead of the length.
get_within_capacity(s, index) ==
    IF index < capacity(s) THEN Some(get_unchecked(s, index)) ELSE None

get(s, index) ==
    IF index < s.len THEN Some(get_unchecked(s, index)) ELSE None

\* The logical content: get(i) for every i < len, as a sequence.
Content(s) == [i \in 1 .. s.len |-> get_unchecked(s, i - 1)]

\* ----------------------------------------------------------------- writes

\* set_unchecked: one read-modify-write of the block lookup_store_mut points
\* to.  Outside the allocation the write is undefined behaviour: it faults,
\* or it lands in memory the BitVec does not own, whose content when it is
\* next read is arbitrary (the value written is one possibility).
set_unchecked(s, index, element) ==
    LET b == lookup_store_mut(index)
        index_mask_ == index_mask(index)
        written == IF element
                   THEN BitOr(s.store[b], index_mask_)
                   ELSE BitAnd(s.store[b], BitNot(index_mask_))
    IN  IF ~OutOfAlloc(s, index)
        THEN {[s EXCEPT !.store[b] = written, !.uninit = s.uninit \ {index}]}
        ELSE {[s EXCEPT !.store[b] = x, !.uninit = s.uninit \ {index}] :
                 x \in BlockValues}
             \cup {[s EXCEPT !.status = "faulted"]}

\* A set that checks the index against the capacity instead of the length.
set_within_capacity(s, index, element) ==
    IF index < capacity(s)
    THEN {[s |-> t, ret |-> "Ok"] : t \in set_unchecked(s, index, element)}
    ELSE {[s |-> s, ret |-> "Err(OutOfBounds)"]}

\* set: the outcomes as pairs of the BitVec after the call and the Result.
set(s, index, element) ==
    IF index < s.len
    THEN {[s |-> t, ret |-> "Ok"] : t \in set_unchecked(s, index, element)}
    ELSE {[s |-> s, ret |-> "Err(OutOfBounds)"]}

\* ----------------------------------------------------------------- resize

\* The buffers realloc may hand back for a request of n blocks: the first
\* `keep` blocks are the old content, the other blocks of the new allocation
\* are uninitialised, and nothing beyond block n is addressable any more.
Reallocated(s, keep, n) ==
    {[k \in Mem |-> IF k < keep THEN s.store[k]
                    ELSE IF k < n THEN g[k] ELSE 0] :
        g \in [{k \in Mem : keep <= k /\ k < n} -> BlockValues]}

\* How many leading blocks survive realloc(store, Layout::new::<B>(), size).
\* The layout passed is that of ONE block whatever the buffer holds: an
\* allocator that knows the real size (libc realloc) keeps the whole old
\* buffer, one that trusts the layout (the default GlobalAlloc::realloc, the
\* fallback path of System) copies min(layout.size(), new_size) bytes.
Kept(s, n) == {Min(s.alloc, n), Min(Min(LayoutBlocks, s.alloc), n)}

\* The logical bits that lie in uninitialised memory when realloc has kept
\* `keep` leading blocks: those that did before and are still below len, and
\* those of the blocks that were not kept.
Uninit(t, keep) ==
    {i \in 0 .. (t.len - 1) : i \in t.uninit \/ lookup_store_mut(i) >= keep}

\* A resize that leaves len as it is.
resize_unclamped(s, change) ==
    LET n == s.num_stores + change
    IN  IF n < 0
        THEN {[s EXCEPT !.status = "panicked"]}
        ELSE LET t == [s EXCEPT !.num_stores = n]
             IN  {[t EXCEPT !.is_null = TRUE, !.status = "panicked"]}
                 \cup
                 UNION {{[t EXCEPT !.store = f, !.alloc = n,
                                   !.uninit = Uninit(t, keep)] :
                            f \in Reallocated(s, keep, n)} : keep \in Kept(s, n)}

\* resize: the BitVec afterwards, for every outcome.
resize(s, change) ==
    LET n == s.num_stores + change
    IN  IF n < 0
        THEN \* try_into::<usize>() fails and expect panics, nothing assigned
             {[s EXCEPT !.status = "panicked"]}
        ELSE LET t == [s EXCEPT !.num_stores = n,
                                !.len = IF s.len > n * bits THEN n * bits
                                        ELSE s.len]
             IN  \* realloc returned null: store is assigned null, then panic
                 {[t EXCEPT !.is_null = TRUE, !.status = "panicked"]}
                 \cup
                 UNION {{[t EXCEPT !.store = f, !.alloc = n,
                                   !.uninit = Uninit(t, keep)] :
                            f \in Reallocated(s, keep, n)} : keep \in Kept(s, n)}

\* A grow that adds one block instead of doubling.
grow_by_one(s) == resize(s, 1)

grow(s) == resize(s, s.num_stores)

shrink_blocks_by(s, n) == resize(s, -n)

\* ------------------------------------------------------------- push / pop

\* push: the BitVec afterwards, for every outcome.
push(s, val) ==
    LET grown == IF s.len >= capacity(s) THEN grow(s) ELSE {s}
        rest(t) ==
            LET u == [t EXCEPT !.len = t.len + 1]
                index == u.len - 1
            IN  {IF r.ret = "Ok" THEN r.s
                 ELSE [r.s EXCEPT !.status = "panicked"] :   \* assert!
                    r \in set(u, index, val)}
    IN  UNION {IF t.status = "live" THEN rest(t) ELSE {t} : t \in grown}

\* ------------------------------------------------------------- traversal

\* store_as_copy: Option<B>, None as << >> and Some(b) as << b >>.
store_as_copy(s, index) ==
    IF index < s.num_stores THEN << s.store[index] >> ELSE << >>

\* Stores::next: the iterator afterwards and the Option returned.
Stores_next(s, it) ==
    LET b == store_as_copy(s, it.index)
    IN  [iter |-> IF b # << >> THEN [it EXCEPT !.index = it.index + 1] ELSE it,
         ret |-> b]

\* A Bits::next that goes on over the unchecked zone.
Bits_next_within_capacity(s, it) ==
    LET b == get_within_capacity(s, it.index)
    IN  [iter |-> IF b # None THEN [it EXCEPT !.index = it.index + 1] ELSE it,
         ret |-> b]

\* Bits::next: the iterator afterwards and the Option returned.
Bits_next(s, it) ==
    LET b == get(s, it.index)
    IN  [iter |-> IF b # None THEN [it EXCEPT !.index = it.index + 1] ELSE it,
         ret |-> b]

\* bit as u8
AsU8(bit) == IF bit THEN 1 ELSE 0

Digit(d) == IF d = 0 THEN "0" ELSE "1"

\* {:b} of an unsigned integer: its binary digits, most significant first,
\* as a sequence of characters.
RECURSIVE Binary(_)
Binary(n) ==
    IF n < 2 THEN << Digit(n) >> ELSE Binary(n \div 2) \o << Digit(n % 2) >>

\* fmt: the text written for the items that Bits::next yields from `it` on.
RECURSIVE fmt_from(_, _)
fmt_from(s, it) ==
    LET r == Bits_next(s, it)
    IN  IF r.ret = None THEN << >>
        ELSE Binary(AsU8(r.ret = Some(TRUE))) \o fmt_from(s, r.iter)

\* drop: what dealloc(store, Layout::new::<B>()) does to the heap buffer.  A
\* null store (left by a realloc that failed) is handed to dealloc while
\* the buffer realloc did not take stays allocated; a buffer of another
\* size than the layout is released by an allocator that knows the real
\* size and mis-released by one that trusts the layout.
drop(s) ==
    IF s.is_null THEN {"leaked"}
    ELSE {"released"} \cup (IF s.alloc # LayoutBlocks THEN {"missized"} ELSE {})

\* pop: the BitVec afterwards and the Option returned.
pop(s) ==
    IF ~is_empty(s)
    THEN LET t == [s EXCEPT !.len = s.len - 1,
                            !.uninit = s.uninit \ {s.len - 1}]
         IN  [s |-> t, ret |-> Some(get_unchecked(t, t.len))]
    ELSE [s |-> s, ret |-> None]

\* ---------------------------------------------------------------- actions

\* What a call that did not return leaves in `last`.
Diverged == "diverged"

Call(op, index, val, ret, before) ==
    [op |-> op, index |-> index, val |-> val, ret |-> ret, before |-> before]

\* No call has returned since the caller last went on.
Idle == Call("none", 0, FALSE, "none", << >>)

\* The BitVec is not borrowed by an iterator.
NoIter == [kind |-> "none", index |-> 0, items |-> << >>, nones |-> 0]

\* iter_bits() / iter_stores(): index 0, nothing returned yet.
NewIter(kind) == [kind |-> kind, index |-> 0, items |-> << >>, nones |-> 0]

\* The fields of the BitVec after a call.
Becomes(t) ==
    /\ store' = t.store
    /\ alloc' = t.alloc
    /\ num_stores' = t.num_stores
    /\ len' = t.len
    /\ status' = t.status
    /\ store_is_null' = t.is_null
    /\ uninit' = IF history = "mixed" THEN {} ELSE t.uninit
    /\ buffer' = buffer
    /\ iter' = iter
    /\ text' = << >>

Returned(t, ret) == IF t.status = "live" THEN ret ELSE Diverged

\* A call can be made: the BitVec is alive and the caller holds no result.
CanCall ==
    /\ status = "live"
    /\ last = Idle
    /\ iter.kind = "none"

\* The side-by-side list follows push, pop and set only.
Plainly(list) ==
    /\ history' = IF history = "mixed" THEN "mixed" ELSE "plain"
    /\ abs' = IF history = "mixed" THEN << >> ELSE list

Mixed ==
    /\ history' = "mixed"
    /\ abs' = << >>

\* new(): alloc_zeroed of ONE block, num_stores 2.  The block after the
\* allocation is counted in capacity() and holds whatever lies there.
Init ==
    /\ store \in {[k \in Mem |-> IF k < InitialAlloc THEN zero
                                 ELSE IF k < InitialStores THEN g[k] ELSE 0] :
                    g \in [{k \in Mem : InitialAlloc <= k /\ k < InitialStores}
                            -> BlockValues]}
    /\ alloc = InitialAlloc
    /\ num_stores = InitialStores
    /\ len = 0
    /\ status = "live"
    /\ store_is_null = FALSE
    /\ uninit = {}
    /\ buffer = "owned"
    /\ iter = NoIter
    /\ text = << >>
    /\ last = Idle
    /\ pushed = Idle
    /\ history = "fresh"
    /\ abs = << >>

Push(val) ==
    /\ CanCall
    /\ len < MaxStores * bits
    /\ len >= capacity(Self) => 2 * num_stores <= MaxStores
    /\ \E t \in push(Self, val) :
          /\ Becomes(t)
          /\ last' = Call("push", len, val, Returned(t, "()"), Content(Self))
    /\ pushed' = last'
    /\ Plainly(Append(abs, val))

Pop ==
    /\ CanCall
    /\ \/ LET r == pop(Self)
          IN  /\ Becomes(r.s)
              /\ last' = Call("pop", 0, FALSE, r.ret, << >>)
       \/ \* the block read lies outside the allocation: the read may fault
          /\ ~is_empty(Self)
          /\ OutOfAlloc(Self, len - 1)
          /\ Becomes([Self EXCEPT !.len = len - 1, !.status = "faulted"])
          /\ last' = Call("pop", 0, FALSE, Diverged, << >>)
    /\ pushed' = Idle
    /\ Plainly(IF abs = << >> THEN abs ELSE SubSeq(abs, 1, Len(abs) - 1))

Set(index, element) ==
    /\ CanCall
    /\ \E r \in set(Self, index, element) :
          /\ Becomes(r.s)
          /\ last' = Call("set", index, element, Returned(r.s, r.ret), << >>)
    /\ pushed' = Idle
    /\ Plainly(IF index < Len(abs) THEN [abs EXCEPT ![index + 1] = element]
               ELSE abs)

\* set_unchecked is documented for indices within capacity.
SetUnchecked(index, element) ==
    /\ CanCall
    /\ index < capacity(Self)
    /\ \E t \in set_unchecked(Self, index, element) :
          /\ Becomes([t EXCEPT !.uninit = {}])
          /\ last' = Call("set_unchecked", index, element, Returned(t, "()"),
                          << >>)
    /\ pushed' = Idle
    /\ Mixed

Get(index) ==
    /\ CanCall
    /\ \/ /\ Becomes(Self)
          /\ last' = Call("get", index, FALSE, get(Self, index), << >>)
       \/ /\ index < len
          /\ OutOfAlloc(Self, index)
          /\ Becomes([Self EXCEPT !.status = "faulted"])
          /\ last' = Call("get", index, FALSE, Diverged, << >>)
    /\ pushed' = Idle
    /\ UNCHANGED << history, abs >>

\* get_unchecked is documented for indices within capacity.
GetUnchecked(index) ==
    /\ CanCall
    /\ index < capacity(Self)
    /\ \/ /\ Becomes(Self)
          /\ last' = Call("get_unchecked", index, FALSE,
                          IF get_unchecked(Self, index) THEN "true" ELSE "false",
                          << >>)
       \/ /\ OutOfAlloc(Self, index)
          /\ Becomes([Self EXCEPT !.status = "faulted"])
          /\ last' = Call("get_unchecked", index, FALSE, Diverged, << >>)
    /\ pushed' = Idle
    /\ UNCHANGED << history, abs >>

ShrinkBlocksBy(n) ==
    /\ CanCall
    /\ num_stores - n <= MaxStores
    /\ \E t \in shrink_blocks_by(Self, n) :
          /\ Becomes([t EXCEPT !.uninit = {}])
          /\ last' = Call("shrink_blocks_by", n, FALSE, Returned(t, "()"),
                          << >>)
    /\ pushed' = Idle
    /\ Mixed

\* iter_bits() and iter_stores() borrow the BitVec.
IterBits ==
    /\ CanCall
    /\ iter' = NewIter("bits")
    /\ pushed' = Idle
    /\ UNCHANGED << store, alloc, num_stores, len, status, store_is_null,
                    uninit, buffer, text, last, history, abs >>

IterStores ==
    /\ CanCall
    /\ iter' = NewIter("stores")
    /\ pushed' = Idle
    /\ UNCHANGED << store, alloc, num_stores, len, status, store_is_null,
                    uninit, buffer, text, last, history, abs >>

\* What the iterator becomes when its next() returns ret.
Yielded(r, none) ==
    IF r.ret # none THEN [r.iter EXCEPT !.items = Append(iter.items, r.ret)]
    ELSE [r.iter EXCEPT !.nones = iter.nones + 1]

BitsNext ==
    /\ status = "live"
    /\ iter.kind = "bits"
    /\ iter.nones < MaxNones
    /\ \/ /\ iter' = Yielded(Bits_next(Self, iter), None)
          /\ UNCHANGED status
       \/ \* the block read lies outside the allocation: the read may fault
          /\ iter.index < len
          /\ OutOfAlloc(Self, iter.index)
          /\ status' = "faulted"
          /\ UNCHANGED iter
    /\ UNCHANGED << store, alloc, num_stores, len, store_is_null, uninit,
                    buffer, text, last, pushed, history, abs >>

StoresNext ==
    /\ status = "live"
    /\ iter.kind = "stores"
    /\ iter.nones < MaxNones
    /\ \/ /\ iter' = Yielded(Stores_next(Self, iter), << >>)
          /\ UNCHANGED status
       \/ /\ iter.index < num_stores
          /\ iter.index >= alloc
          /\ status' = "faulted"
          /\ UNCHANGED iter
    /\ UNCHANGED << store, alloc, num_stores, len, store_is_null, uninit,
                    buffer, text, last, pushed, history, abs >>

\* The iterator goes out of scope.
EndIter ==
    /\ status = "live"
    /\ iter.kind # "none"
    /\ iter' = NoIter
    /\ UNCHANGED << store, alloc, num_stores, len, status, store_is_null,
                    uninit, buffer, text, last, pushed, history, abs >>

\* <BitVec as Display>::fmt, the whole loop over iter_bits().
Fmt ==
    /\ CanCall
    /\ \/ /\ text' = fmt_from(Self, NewIter("bits"))
          /\ last' = Call("fmt", 0, FALSE, "Ok", << >>)
          /\ UNCHANGED status
       \/ \* a block read lies outside the allocation: the read may fault
          /\ \E index \in 0 .. (len - 1) : OutOfAlloc(Self, index)
          /\ text' = << >>
          /\ last' = Call("fmt", 0, FALSE, Diverged, << >>)
          /\ status' = "faulted"
    /\ pushed' = Idle
    /\ UNCHANGED << store, alloc, num_stores, len, store_is_null, uninit,
                    buffer, iter, history, abs >>

\* The BitVec goes out of scope, at the end of its life or while a panic
\* unwinds.  No block can be addressed through it afterwards.
Drop ==
    /\ status \in {"live", "panicked"}
    /\ status = "live" => CanCall
    /\ buffer' \in drop(Self)
    /\ status' = "dropped"
    /\ store' = [k \in Mem |-> 0]
    /\ alloc' = 0
    /\ uninit' = {}
    /\ last' = Idle
    /\ pushed' = Idle
    /\ UNCHANGED << num_stores, len, store_is_null, iter, text, history, abs >>

\* The caller takes the result of the call that returned and goes on.
Continue ==
    /\ status = "live"
    /\ last # Idle
    /\ last' = Idle
    /\ text' = << >>
    /\ UNCHANGED << store, alloc, num_stores, len, status, store_is_null,
                    uninit, buffer, iter, pushed, history, abs >>

Next ==
    \/ \E val \in BOOLEAN : Push(val)
    \/ Pop
    \/ \E index \in Indexes, element \in BOOLEAN : Set(index, element)
    \/ \E index \in Indexes, element \in BOOLEAN : SetUnchecked(index, element)
    \/ \E index \in Indexes : Get(index)
    \/ \E index \in Indexes : GetUnchecked(index)
    \/ \E n \in -1 .. (MaxStores + 1) : ShrinkBlocksBy(n)
    \/ Continue
    \/ Drop
    \/ IterBits
    \/ BitsNext
    \/ IterStores
    \/ StoresNext
    \/ EndIter
    \/ Fmt

Spec == Init /\ [][Next]_vars

\* ----------------------------------------------------------------- claims

\* The fields of the BitVec, as one tuple.
core == << store, alloc, num_stores, len, status >>

\* C1: in every state reached by calls that return, len() <= capacity(),
\* also right after a shrink and right after a push that follows a shrink.
C1_LenWithinCapacity ==
    status = "live" => len <= capacity(Self)

\* C2: in every reachable state, from new() on, the number of blocks actually
\* allocated for the buffer equals num_stores.
C2_AllocationMatchesNumStores ==
    status = "live" => alloc = num_stores

\* C3: on a BitVec fresh from new(), get_unchecked(i) returns false for every
\* i < capacity() (the call is only made with i < capacity()).
C3_FreshBitsAreFalse ==
    (history = "fresh" /\ last.op = "get_unchecked") => last.ret = "false"

\* C4: run side by side with a plain list under push, pop and set from new(),
\* len() is the length of the list and get(i) is Some(list[i]) for every
\* i < len().
C4_RefinesPlainList ==
    (history # "mixed" /\ status = "live") =>
        /\ len = Len(abs)
        /\ \A i \in 0 .. (len - 1) : get(Self, i) = Some(abs[i + 1])

\* C5: a push(v) (that is not cut short by a failed allocation) returns with
\* len() one more than before and get(len() - 1) = Some(v).
C5_PushAppends ==
    (last.op = "push" /\ status # "panicked") =>
        /\ last.ret = "()"
        /\ len = last.index + 1
        /\ get(Self, len - 1) = Some(last.val)

\* C6: a pop() made right after a push(v) that returned gives Some(v), puts
\* len() back to its value before the push and leaves get(i) as it was before
\* the push for every i below that length.
C6_PopUndoesPush ==
    [][(pushed # Idle /\ pushed.ret = "()" /\ last'.op = "pop") =>
          /\ last'.ret = Some(pushed.val)
          /\ len' = pushed.index
          /\ Content(Self') = pushed.before]_vars

\* C7: for every i < len() and every v, set(i, v) returns Ok and get(i) is
\* then Some(v).
C7_SetThenGet ==
    (last.op = "set" /\ last.index < len) =>
        /\ last.ret = "Ok"
        /\ get(Self, last.index) = Some(last.val)

\* C8: set(i, v) returns Err(OutOfBounds) exactly when i >= len(), and a set
\* that fails changes nothing of the BitVec.
C8_SetOutOfBounds ==
    [][last'.op = "set" =>
          /\ (last'.ret = "Err(OutOfBounds)") <=> (last'.index >= len)
          /\ last'.ret = "Err(OutOfBounds)" => UNCHANGED core]_vars

\* A set has just failed on an index that lies within the capacity, on a
\* BitVec that is not empty.
C8_Witness ==
    /\ last.op = "set"
    /\ last.ret = "Err(OutOfBounds)"
    /\ len > 0
    /\ last.index >= len
    /\ last.index < capacity(Self)

\* C9: get(i) returns None exactly when i >= len(), pop() returns None exactly
\* when len() = 0, and a call that returns None changes nothing of the BitVec.
C9_AbsentValues ==
    [][/\ last'.op = "get" =>
             /\ (last'.ret = None) <=> (last'.index >= len)
             /\ last'.ret = None => UNCHANGED core
       /\ last'.op = "pop" =>
             /\ (last'.ret = None) <=> (len = 0)
             /\ last'.ret = None => UNCHANGED core]_vars

\* A get has just returned None for an index within the capacity whose bit
\* is stored as 1 in a block of the allocation.
C9_Witness ==
    /\ last.op = "get"
    /\ last.ret = None
    /\ last.index < capacity(Self)
    /\ ~OutOfAlloc(Self, last.index)
    /\ get_unchecked(Self, last.index)

\* C10: a push that returns doubles capacity() when it is made at
\* len() >= capacity() and leaves it alone otherwise; under push, pop and set
\* from new() the capacity changes only at a push made at len() = 2 blocks,
\* which makes it 4 blocks.
C10_GrowthDoubles ==
    [][/\ (last'.op = "push" /\ last'.ret = "()") =>
             capacity(Self') = IF len >= capacity(Self)
                               THEN 2 * capacity(Self) ELSE capacity(Self)
       /\ (history' # "mixed" /\ status' = "live"
              /\ capacity(Self') # capacity(Self)) =>
             /\ last'.op = "push"
             /\ len = InitialStores * bits
             /\ capacity(Self) = InitialStores * bits
             /\ capacity(Self') = 2 * InitialStores * bits]_vars

\* Push number 2 * bits + 1 after new() has just returned, with the capacity
\* doubled.
C10_Witness ==
    /\ last.op = "push"
    /\ last.ret = "()"
    /\ history = "plain"
    /\ Len(abs) = InitialStores * bits + 1
    /\ len = InitialStores * bits + 1
    /\ capacity(Self) = 2 * InitialStores * bits

\* C11: when shrink_blocks_by(n) returns, len() is the smaller of the len()
\* before the call and the capacity() after it.
C11_ShrinkClampsLen ==
    [][(last'.op = "shrink_blocks_by" /\ last'.ret = "()") =>
          len' = Min(len, capacity(Self'))]_vars

\* A shrink_blocks_by has just returned and cut the length down to a
\* capacity of at least one block.
C11_Witness ==
    /\ last.op = "shrink_blocks_by"
    /\ last.ret = "()"
    /\ last.index > 0
    /\ num_stores > 0
    /\ len = capacity(Self)
    /\ history = "mixed"

\* C12: a shrink_blocks_by(n) with n at least the block count (a resulting
\* block count of zero or less) never returns, so the block count is at
\* least 1 in every state of a BitVec that has not aborted.
C12_BlockCountPositive ==
    [][/\ (last'.op = "shrink_blocks_by" /\ last'.index >= num_stores) =>
             last'.ret = Diverged
       /\ status' = "live" => num_stores' >= 1]_vars

\* C13: on every way out (drop at the end of life, unwinding from the panic
\* of a rejected block count, unwinding from the panic after realloc returned
\* null) the heap buffer is released exactly once, whole: it is not leaked
\* and dealloc is given neither null nor a layout of another size.
C13_ReleasedExactlyOnce ==
    status = "dropped" => buffer = "released"

\* C14: a traversal is finite and exact.  The iterator of iter_bits() yields
\* len() items, the k-th being get(k), then None, and goes on returning None;
\* the iterator of iter_stores() yields one item for each block allocated in
\* the buffer, the k-th being block k, then None.
C14_TraversalsExact ==
    /\ iter.kind = "bits" =>
          /\ Len(iter.items) <= len
          /\ iter.nones > 0 => Len(iter.items) = len
          /\ \A k \in 1 .. Len(iter.items) : iter.items[k] = get(Self, k - 1)
    /\ iter.kind = "stores" =>
          /\ Len(iter.items) <= alloc
          /\ iter.nones > 0 => Len(iter.items) = alloc
          /\ \A k \in 1 .. Len(iter.items) : iter.items[k] = << store[k - 1] >>

\* C15: the text written by Display has exactly len() characters, and the
\* character at position i is '1' when get(i) is Some(true) and '0' when it
\* is Some(false); no bit at or beyond len() appears in it.
C15_DisplayIsLogicalBits ==
    (last.op = "fmt" /\ last.ret = "Ok") =>
        /\ Len(text) = len
        /\ \A i \in 0 .. (len - 1) :
              text[i + 1] = IF get(Self, i) = Some(TRUE) THEN "1" ELSE "0"

\* A fmt has just returned on a BitVec that holds both a true and a false
\* bit and has a bit stored as 1 in its unchecked zone.
C15_Witness ==
    /\ last.op = "fmt"
    /\ last.ret = "Ok"
    /\ \E i, j \in 0 .. (len - 1) :
          get(Self, i) = Some(TRUE) /\ get(Self, j) = Some(FALSE)
    /\ \E i \in len .. (capacity(Self) - 1) :
          ~OutOfAlloc(Self, i) /\ get_unchecked(Self, i)

\* C16: a set_unchecked(i, v) with i < capacity() that returns, and a set that
\* returns Ok, leave len(), capacity() and every bit j # i within the
\* capacity as they were.
C16_WriteTouchesOneBit ==
    [][((last'.op = "set_unchecked" /\ last'.ret = "()")
           \/ (last'.op = "set" /\ last'.ret = "Ok")) =>
          /\ len' = len
          /\ capacity(Self') = capacity(Self)
          /\ \A j \in 0 .. (capacity(Self) - 1) :
                j # last'.index =>
                    get_unchecked(Self', j) = get_unchecked(Self, j)]_vars

\* C17: every block that get, set, push, pop, the two iterators and Display
\* dereference has an index below the number of blocks allocated.
C17_DereferencesWithinAllocation ==
    [][/\ (last'.op = "get" /\ last'.index < len) =>
             ~OutOfAlloc(Self, last'.index)
       /\ (last'.op = "set" /\ last'.index < len) =>
             ~OutOfAlloc(Self, last'.index)
       /\ (last'.op = "pop" /\ len > 0) => ~OutOfAlloc(Self, len - 1)
       /\ (last'.op = "push" /\ status' # "panicked") =>
             ~OutOfAlloc(Self', len' - 1)
       /\ last'.op = "fmt" =>
             \A i \in 0 .. (len - 1) : ~OutOfAlloc(Self, i)
       /\ (iter.kind = "bits" /\ iter'.kind = "bits" /\ iter.index < len
              /\ (iter' # iter \/ status' # status)) =>
             ~OutOfAlloc(Self, iter.index)
       /\ (iter.kind = "stores" /\ iter'.kind = "stores"
              /\ iter.index < num_stores
              /\ (iter' # iter \/ status' # status)) =>
             iter.index < alloc]_vars

\* C18: when shrink_blocks_by(n) returns (n < 0 grows: n = -num_stores is
\* grow()), get(i) is what it was before the call for every i below the
\* smaller of the old len() and the new capacity(), and a growth leaves
\* len() unchanged.
C18_ResizeKeepsContent ==
    [][(last'.op = "shrink_blocks_by" /\ last'.ret = "()") =>
          /\ \A i \in 0 .. (Min(len, capacity(Self')) - 1) :
                get(Self', i) = get(Self, i)
          /\ last'.index < 0 => len' = len]_vars

\* C19: no logical bit lies in uninitialised memory: every index below
\* len() holds a value written by push or set, or the zero of the initial
\* allocation (checked on the histories of push, pop and set from new()).
C19_LogicalBitsInitialised ==
    (status = "live" /\ history # "mixed") => uninit = {}

====
